---- MODULE Spec2Model ----
(***************************************************************************)
(* The doubly-linked deque of src/src/fourth.rs as a state machine.        *)
(*                                                                         *)
(* A node is an Rc<RefCell<Node<T>>> allocation: a strong count, a RefCell *)
(* borrow flag, the element and the two links.  The heap maps addresses to *)
(* allocations; an address whose strong count is 0 is not allocated.       *)
(* Handles (Rc) are counted as the code counts them: Node::new makes one,  *)
(* clone() adds one, moving a handle keeps the count, dropping one         *)
(* subtracts one and releases the allocation when the count reaches 0.     *)
(***************************************************************************)
EXTENDS Integers, Sequences, FiniteSets, TLC

\* ---- bounds of the model ------------------------------------------------
MaxNodes == 3        \* addresses the allocator can hand out
MaxElem == 2         \* elements are 1..MaxElem
MaxViews == 2        \* shared peek views (Ref) a caller holds at once
MaxExtraCalls == 2   \* iterator calls made after the iterator is exhausted
MaxLists == 3        \* third.rs: lists the caller holds at one time
MaxForgets == 1      \* views a caller forgets (std::mem::forget) in one run
MaxLeakLen == 2      \* nodes of a list whose caller forgets views
MaxShared == 2       \* third.rs: addresses the allocator can hand out

NodeIds == 1..MaxNodes
Elems == 1..MaxElem

\* Link<T> = Option<Rc<RefCell<Node<T>>>>: None, or the address of a node.
None == 0
Link == {None} \cup NodeIds

\* Option<T> as returned by pop / peek / next: <<>> is None, <<x>> is Some(x).
NoElem == <<>>
SomeElem(x) == <<x>>

VARIABLES
    head,        \* List.head
    tail,        \* List.tail
    heap,        \* address -> allocation
    ret,         \* what the last operation returned (Option<T>; NoElem for unit)
    fault,       \* "none", or the panic the last operation ended in
    unwrapRc,    \* strong count Rc::try_unwrap saw in the last pop (0: not reached)
    views,       \* address -> views of the node the caller holds (n Ref, -1: a RefMut)
    leaked,      \* views the caller has forgotten without releasing them
    op,          \* name of the last operation
    phase,       \* "list" | "iter" | "dropping" | "dropped" | round-trip phases
    abs,         \* abstract sequence of the elements (history)
    absRet,      \* what the abstract sequence returned for the last operation
    emptied,     \* some pop has emptied the list (history)
    seq0,        \* elements of the list when into_iter / drop was called
    nFront,      \* elements IntoIter::next has yielded
    nBack,       \* elements IntoIter::next_back has yielded
    calls,       \* next / next_back calls (iter), pop_front calls (drop)
    pushEnd,     \* round trip: the end every push used
    popEnd,      \* round trip: the end every pop uses
    pushed,      \* round trip: the elements in push order
    popped,      \* round trip: the elements in pop order
    queue,       \* fifth.rs: the List (head, raw tail pointer), its heap, last result
    qhist,       \* fifth.rs: abstract queue and last operation (history)
    plist,       \* third.rs: the lists the caller holds and their shared heap
    phist,       \* third.rs: the last operation and its operands (history)
    stack,       \* first.rs / second.rs: which List, its head, its heap, last result
    shist        \* first.rs / second.rs: abstract stack and last operation (history)

listVars == <<head, tail, heap, ret, fault, unwrapRc, op>>
histVars == <<abs, absRet, emptied>>
iterVars == <<seq0, nFront, nBack, calls>>
rtVars == <<pushEnd, popEnd, pushed, popped>>
\* The deque of fourth.rs, and the sibling lists of the repository.
viewVars == <<views, leaked>>
dequeVars == <<head, tail, heap, ret, fault, unwrapRc, views, leaked, op, phase,
               abs, absRet, emptied, seq0, nFront, nBack, calls,
               pushEnd, popEnd, pushed, popped>>
qVars == <<queue, qhist>>
pVars == <<plist, phist>>
sVars == <<stack, shist>>
sibVars == <<qVars, pVars, sVars>>
vars == <<dequeVars, sibVars>>

\* ---- the allocation -----------------------------------------------------
\* An unallocated address.
FreeCell == [strong |-> 0, borrow |-> 0, elem |-> 0, prev |-> None, next |-> None]

\* Node::new(elem) at address a: one handle, both links None.
Node_new(hp, a, e) ==
    [hp EXCEPT ![a] = [strong |-> 1, borrow |-> 0, elem |-> e,
                       prev |-> None, next |-> None]]

\* Rc::clone: one more handle to the same allocation.
Rc_clone(hp, a) == [hp EXCEPT ![a].strong = @ + 1]

\* Dropping a Link: None drops nothing; a handle subtracts one from the strong
\* count, and the last handle releases the node, which drops the node's own
\* prev and next links in declaration order.
RECURSIVE Link_drop(_, _)
Link_drop(hp, l) ==
    IF l = None \/ hp[l].strong = 0 THEN hp
    ELSE IF hp[l].strong > 1 THEN [hp EXCEPT ![l].strong = @ - 1]
    ELSE LET n == hp[l]
             h1 == [hp EXCEPT ![l] = FreeCell]
             h2 == Link_drop(h1, n.prev)
         IN Link_drop(h2, n.next)

Live(hp) == {a \in NodeIds : hp[a].strong > 0}

\* The machine state the operations work on.
Mach(h, t, hp) == [head |-> h, tail |-> t, heap |-> hp, ret |-> NoElem,
                   fault |-> "none", unwrapRc |-> 0]

\* List::new()
List_new == Mach(None, None, [a \in NodeIds |-> FreeCell])

\* What every operation starts from: nothing returned yet, try_unwrap not reached.
Enter(m) == [m EXCEPT !.ret = NoElem, !.unwrapRc = 0, !.fault = "none"]

\* ---- push ---------------------------------------------------------------



\* Mutant of push_front_link: old_head.next is cleared as well.
push_front_link_clear_next(hp, old_head, a) ==
    LET was == hp[old_head].prev
        h1 == Link_drop([Rc_clone(hp, a) EXCEPT ![old_head].prev = a], was)
        h2 == Link_drop([h1 EXCEPT ![old_head].next = None], h1[old_head].next)
    IN [h2 EXCEPT ![a].next = old_head]

\* Mutant of push_front_link: new_head.next is set to new_head itself.
push_front_link_self(hp, old_head, a) ==
    [Rc_clone(Rc_clone(hp, a), a) EXCEPT ![old_head].prev = a, ![a].next = a]

\* Mutant of push_front_link: old_head.prev is not set.
push_front_link_no_prev(hp, old_head, a) == [hp EXCEPT ![a].next = old_head]

\* push_front, list non-empty: old_head.prev = Some(new_head.clone());
\* new_head.next = Some(old_head).  An assignment drops the link it replaces.
push_front_link(hp, old_head, a) ==
    LET was == hp[old_head].prev
        h1 == Link_drop([Rc_clone(hp, a) EXCEPT ![old_head].prev = a], was)
    IN [h1 EXCEPT ![a].next = old_head]

\* Mutant of push_front_empty: the tail anchor is not set.
push_front_empty_no_tail(m, hp, a) == [m EXCEPT !.head = a, !.heap = hp]

\* push_front, list empty: self.tail = Some(new_head.clone());
\* self.head = Some(new_head).
push_front_empty(m, hp, a) ==
    [m EXCEPT !.tail = a, !.head = a, !.heap = Link_drop(Rc_clone(hp, a), m.tail)]

\* List::push_front(elem); a is the address the allocator gives Node::new.
push_front(m, a, e) ==
    LET m0 == Enter(m)
        h0 == Node_new(m.heap, a, e)                      \* new_head
    IN IF m.head # None                                   \* self.head.take()
       THEN LET old_head == m.head
            IN IF h0[old_head].borrow # 0                 \* old_head.borrow_mut()
               THEN [m0 EXCEPT !.head = None,
                               !.heap = Link_drop(Link_drop(h0, old_head), a),
                               !.fault = "BorrowMutError"]
               ELSE [m0 EXCEPT !.head = a,                \* self.head = Some(new_head)
                               !.heap = push_front_link(h0, old_head, a)]
       ELSE push_front_empty(m0, h0, a)

\* Mutant of push_back_link: new_tail.prev is not set.
push_back_link_no_prev(hp, old_tail, a) ==
    LET was == hp[old_tail].next
    IN Link_drop([hp EXCEPT ![old_tail].next = a], was)



\* Mutant of push_back_link: new_tail.next is set to new_tail itself.
push_back_link_loop(hp, old_tail, a) ==
    LET was == hp[old_tail].next
        h1 == Link_drop([Rc_clone(hp, a) EXCEPT ![old_tail].next = a], was)
    IN [Rc_clone(h1, a) EXCEPT ![a].prev = old_tail, ![a].next = a]

\* Mutant of push_back_link: new_tail.next is set too, back to old_tail.
push_back_link_circular(hp, old_tail, a) ==
    LET was == hp[old_tail].next
        h1 == Link_drop([Rc_clone(hp, a) EXCEPT ![old_tail].next = a], was)
    IN [Rc_clone(h1, old_tail) EXCEPT ![a].prev = old_tail, ![a].next = old_tail]

\* push_back, list non-empty: old_tail.next = Some(new_tail.clone());
\* new_tail.prev = Some(old_tail).
push_back_link(hp, old_tail, a) ==
    LET was == hp[old_tail].next
        h1 == Link_drop([Rc_clone(hp, a) EXCEPT ![old_tail].next = a], was)
    IN [h1 EXCEPT ![a].prev = old_tail]


\* Mutant of push_back_empty: both anchors set from one handle, no clone.
push_back_empty_no_clone(m, hp, a) == [m EXCEPT !.head = a, !.tail = a, !.heap = hp]

\* push_back, list empty: self.head = Some(new_tail.clone());
\* self.tail = Some(new_tail).
push_back_empty(m, hp, a) ==
    [m EXCEPT !.head = a, !.tail = a, !.heap = Link_drop(Rc_clone(hp, a), m.head)]

\* Mutant of push_back: the node goes to the front.
push_back_at_front(m, a, e) == push_front(m, a, e)

\* List::push_back(elem); a is the address the allocator gives Node::new.
push_back(m, a, e) ==
    LET m0 == Enter(m)
        h0 == Node_new(m.heap, a, e)                      \* new_tail
    IN IF m.tail # None                                   \* self.tail.take()
       THEN LET old_tail == m.tail
            IN IF h0[old_tail].borrow # 0                 \* old_tail.borrow_mut()
               THEN [m0 EXCEPT !.tail = None,
                               !.heap = Link_drop(Link_drop(h0, old_tail), a),
                               !.fault = "BorrowMutError"]
               ELSE [m0 EXCEPT !.tail = a,                \* self.tail = Some(new_tail)
                               !.heap = push_back_link(h0, old_tail, a)]
       ELSE push_back_empty(m0, h0, a)

\* ---- pop ----------------------------------------------------------------
\* Rc::try_unwrap(node).ok().unwrap().into_inner().elem, reached once the
\* RefMut of the match has been released: with one handle left the node is
\* moved out (its allocation released, its links dropped) and the element
\* returned; with more, ok() drops the handle and unwrap() panics.
Rc_try_unwrap_elem(m, a) ==
    LET hp == [m.heap EXCEPT ![a].borrow = 0]
        rc == hp[a].strong
        n == hp[a]
    IN IF rc = 1
       THEN [m EXCEPT !.heap = Link_drop(Link_drop([hp EXCEPT ![a] = FreeCell],
                                                   n.prev), n.next),
                      !.ret = SomeElem(n.elem), !.unwrapRc = rc]
       ELSE [m EXCEPT !.heap = Link_drop(hp, a), !.unwrapRc = rc,
                      !.fault = "UnwrapNone"]

\* Mutant of pop_front_sever: new_head.prev is left as it is.
pop_front_sever_skip(hp, new_head) == hp

\* new_head.borrow_mut().prev.take(): the link is cleared and the handle taken
\* out of it dropped.
pop_front_sever(hp, new_head) ==
    Link_drop([hp EXCEPT ![new_head].prev = None], hp[new_head].prev)


\* Mutant of pop_front_last: the tail anchor is not taken.
pop_front_last_keep_tail(m, hp) == [m EXCEPT !.head = None, !.heap = hp]

\* pop_front, the removed node the only one: self.tail.take(), dropped.
pop_front_last(m, hp) ==
    [m EXCEPT !.head = None, !.tail = None, !.heap = Link_drop(hp, m.tail)]

\* The closure of pop_front, old_head being the handle taken from self.head.
\* The RefMut of old_head made for the match is held over both arms.
pop_front_some(m) ==
    LET m0 == Enter(m)
        old_head == m.head
        hp == m.heap
    IN IF hp[old_head].borrow # 0                         \* old_head.borrow_mut()
       THEN [m0 EXCEPT !.head = None, !.heap = Link_drop(hp, old_head),
                       !.fault = "BorrowMutError"]
       ELSE LET nxt == hp[old_head].next                  \* .next.take()
                h1 == [hp EXCEPT ![old_head].borrow = -1, ![old_head].next = None]
            IN IF nxt # None
               THEN IF h1[nxt].borrow # 0                 \* new_head.borrow_mut()
                    THEN [m0 EXCEPT !.head = None,
                             !.heap = Link_drop(Link_drop(
                                 [h1 EXCEPT ![old_head].borrow = 0], nxt), old_head),
                             !.fault = "BorrowMutError"]
                    ELSE Rc_try_unwrap_elem(              \* self.head = Some(new_head)
                             [m0 EXCEPT !.head = nxt, !.heap = pop_front_sever(h1, nxt)],
                             old_head)
               ELSE Rc_try_unwrap_elem(pop_front_last(m0, h1), old_head)

\* Mutant of pop_front: unwrap() on the taken head instead of map().
pop_front_unwrap(m) ==
    IF m.head = None THEN [Enter(m) EXCEPT !.fault = "UnwrapNone"]
    ELSE pop_front_some(m)

\* List::pop_front(): self.head.take().map(closure)
pop_front(m) == IF m.head = None THEN Enter(m) ELSE pop_front_some(m)


\* Mutant of pop_back_sever: prev_tail.next is left as it is.
pop_back_sever_keep(hp, prev_tail) == hp

\* Mutant of pop_back_sever: prev is taken where next was meant.
pop_back_sever_wrong_link(hp, prev_tail) ==
    Link_drop([hp EXCEPT ![prev_tail].prev = None], hp[prev_tail].prev)

\* prev_tail.borrow_mut().next.take(): the link is cleared and the handle taken
\* out of it dropped.
pop_back_sever(hp, prev_tail) ==
    Link_drop([hp EXCEPT ![prev_tail].next = None], hp[prev_tail].next)

\* Mutant of pop_back_last: the head anchor is not taken.
pop_back_last_keep_head(m, hp) == [m EXCEPT !.tail = None, !.heap = hp]

\* pop_back, the removed node the only one: self.head.take(), dropped.
pop_back_last(m, hp) ==
    [m EXCEPT !.tail = None, !.head = None, !.heap = Link_drop(hp, m.head)]

\* The closure of pop_back, old_tail being the handle taken from self.tail.
\* The RefMut of old_tail made for the match is held over both arms.
pop_back_some(m) ==
    LET m0 == Enter(m)
        old_tail == m.tail
        hp == m.heap
    IN IF hp[old_tail].borrow # 0                         \* old_tail.borrow_mut()
       THEN [m0 EXCEPT !.tail = None, !.heap = Link_drop(hp, old_tail),
                       !.fault = "BorrowMutError"]
       ELSE LET prv == hp[old_tail].prev                  \* .prev.take()
                h1 == [hp EXCEPT ![old_tail].borrow = -1, ![old_tail].prev = None]
            IN IF prv # None
               THEN IF h1[prv].borrow # 0                 \* prev_tail.borrow_mut()
                    THEN [m0 EXCEPT !.tail = None,
                             !.heap = Link_drop(Link_drop(
                                 [h1 EXCEPT ![old_tail].borrow = 0], prv), old_tail),
                             !.fault = "BorrowMutError"]
                    ELSE Rc_try_unwrap_elem(              \* self.tail = Some(prev_tail)
                             [m0 EXCEPT !.tail = prv, !.heap = pop_back_sever(h1, prv)],
                             old_tail)
               ELSE Rc_try_unwrap_elem(pop_back_last(m0, h1), old_tail)

\* Mutant of pop_back: the pop is made at the front.
pop_back_from_front(m) == pop_front(m)

\* List::pop_back(): self.tail.take().map(closure)
pop_back(m) == IF m.tail = None THEN Enter(m) ELSE pop_back_some(m)

\* IntoIter::next()
IntoIter_next(m) == pop_front(m)

\* Mutant of IntoIter_next_back: it delegates to pop_front.
IntoIter_next_back_front(m) == pop_front(m)

\* IntoIter::next_back()
IntoIter_next_back(m) == pop_back(m)

\* ---- peek ---------------------------------------------------------------
\* node.borrow(): one more shared borrow, a panic while exclusively borrowed.
\* The Ref<T> returned keeps the borrow until the caller drops it.
peek_shared(m, l) ==
    LET m0 == Enter(m)
    IN IF l = None THEN m0
       ELSE IF m.heap[l].borrow < 0 THEN [m0 EXCEPT !.fault = "BorrowError"]
       ELSE [m0 EXCEPT !.heap[l].borrow = @ + 1, !.ret = SomeElem(m.heap[l].elem)]

\* node.borrow_mut(): the exclusive borrow, a panic while borrowed at all.
\* The RefMut<T> returned keeps the borrow until the caller drops it.
peek_excl(m, l) ==
    LET m0 == Enter(m)
    IN IF l = None THEN m0
       ELSE IF m.heap[l].borrow # 0 THEN [m0 EXCEPT !.fault = "BorrowMutError"]
       ELSE [m0 EXCEPT !.heap[l].borrow = -1, !.ret = SomeElem(m.heap[l].elem)]

peek_front(m) == peek_shared(m, m.head)

\* Mutant of peek_front_mut: take() on the anchor where as_mut() was meant.
peek_front_mut_take(m) == [peek_excl(m, m.head) EXCEPT !.head = None]

peek_front_mut(m) == peek_excl(m, m.head)

\* Mutant of peek_back: the view is taken of the head node.
peek_back_at_head(m) == peek_shared(m, m.head)

peek_back(m) == peek_shared(m, m.tail)
peek_back_mut(m) == peek_excl(m, m.tail)

\* The caller drops a view of node a: a Ref gives its shared borrow back, a
\* RefMut the exclusive one.
view_drop(m, a) ==
    [Enter(m) EXCEPT !.heap[a].borrow = IF @ < 0 THEN 0 ELSE @ - 1]

\* The caller forgets a view of node a (std::mem::forget): no destructor
\* runs, the borrow is never given back.
view_forget(m, a) == Enter(m)

\* The caller assigns through the RefMut view of node a.
view_write(m, a, x) == [Enter(m) EXCEPT !.heap[a].elem = x]

\* ---- what a traversal sees ----------------------------------------------
\* The nodes met from link l following next (at most fuel of them).
RECURSIVE NextChain(_, _, _)
NextChain(hp, l, fuel) ==
    IF l = None \/ fuel = 0 THEN <<>>
    ELSE <<l>> \o NextChain(hp, hp[l].next, fuel - 1)

\* The nodes met from link l following prev (at most fuel of them).
RECURSIVE PrevChain(_, _, _)
PrevChain(hp, l, fuel) ==
    IF l = None \/ fuel = 0 THEN <<>>
    ELSE <<l>> \o PrevChain(hp, hp[l].prev, fuel - 1)

Forward == NextChain(heap, head, MaxNodes + 1)
Backward == PrevChain(heap, tail, MaxNodes + 1)
ElemsOf(hp, chain) == [i \in 1..Len(chain) |-> hp[chain[i]].elem]
Elements == ElemsOf(heap, Forward)

RECURSIVE Reverse(_)
Reverse(s) == IF s = <<>> THEN <<>> ELSE Append(Reverse(Tail(s)), Head(s))


\* ---- fifth.rs: the queue with a raw tail pointer --------------------------
\* Box<Node<T>> cells: a box has one owner, so a cell is live or free.
FreeBox == [live |-> FALSE, elem |-> 0, next |-> None]
\* ptr::null_mut()
null == 0

\* What an assignment through a pointer to a released box may do: land in the
\* released memory (the value read there is dropped, then the new one is
\* written), be lost, or end the process (SIGSEGV while the value read there
\* is dropped).
Outcomes == {"lands", "lost", "crash"}

\* fifth::List::new(); ub records a write through a dangling pointer, crashed
\* that the process was killed, dropped that the list has gone out of scope.
fifth_new ==
    [head |-> None, tail |-> null, heap |-> [a \in NodeIds |-> FreeBox],
     ret |-> NoElem, ub |-> FALSE, crashed |-> FALSE, dropped |-> FALSE]

\* The elements a walk over the next links sees, at most fuel boxes.
RECURSIVE BoxChain(_, _, _)
BoxChain(hp, l, fuel) ==
    IF l = None \/ fuel = 0 \/ ~hp[l].live THEN <<>>
    ELSE <<hp[l].elem>> \o BoxChain(hp, hp[l].next, fuel - 1)

\* The address of the box i links after the link l (0: the box of l itself),
\* or None when the chain ends before.
RECURSIVE BoxAt(_, _, _)
BoxAt(hp, l, i) ==
    IF l = None \/ ~hp[l].live THEN None
    ELSE IF i = 0 THEN l ELSE BoxAt(hp, hp[l].next, i - 1)

\* The chain of live boxes from the link l comes back to a box of met: the
\* drop glue of such a chain never ends, and the process is killed when its
\* stack overflows.
RECURSIVE Box_loops(_, _, _)
Box_loops(hp, l, met) ==
    IF l = None \/ ~hp[l].live THEN FALSE
    ELSE IF l \in met THEN TRUE
    ELSE Box_loops(hp, hp[l].next, met \cup {l})

\* Dropping an Option<Box<Node<T>>> whose chain ends: the box is released
\* and, with it, the boxes its next link owns.
RECURSIVE Box_drop(_, _)
Box_drop(hp, l) ==
    IF l = None \/ ~hp[l].live THEN hp
    ELSE Box_drop([hp EXCEPT ![l] = FreeBox], hp[l].next)

\* unsafe { (*self.tail).next = Some(new_tail) }: the assignment through the
\* raw pointer drops the link the field held and writes the new one.  hp is
\* the heap with the new box a.  A pointer to a box released before the call
\* (whether or not its address was given out again) is undefined behaviour,
\* with the outcomes above.  A chain that names itself ends the process when
\* it is dropped.
fifth_write_tail(q, hp, a, outcome) ==
    LET old == hp[q.tail].next
        written == [q EXCEPT !.heap = [Box_drop(hp, old) EXCEPT ![q.tail].next = a]]
    IN  IF q.heap[q.tail].live
        THEN IF Box_loops(hp, old, {}) THEN [q EXCEPT !.crashed = TRUE]
             ELSE written
        ELSE IF outcome = "crash" \/ (outcome = "lands" /\ Box_loops(hp, old, {}))
             THEN [q EXCEPT !.ub = TRUE, !.crashed = TRUE]
        ELSE IF outcome = "lands" THEN [written EXCEPT !.ub = TRUE]
        ELSE [q EXCEPT !.ub = TRUE, !.heap = hp]

\* Mutant of fifth_push: self.tail is set only when the list was empty.
fifth_push_stale_tail(q, a, e, outcome) ==
    LET hp == [q.heap EXCEPT ![a] = [live |-> TRUE, elem |-> e, next |-> None]]
    IN  IF q.tail # null
        THEN [q EXCEPT !.heap = [hp EXCEPT ![q.tail].next = a], !.ret = NoElem]
        ELSE [q EXCEPT !.head = a, !.heap = hp, !.tail = a, !.ret = NoElem]

\* fifth::List::push; a is the address Box::new returns.  self.head =
\* Some(new_tail) drops the list the head held.
fifth_push(q, a, e, outcome) ==
    LET hp == [q.heap EXCEPT ![a] = [live |-> TRUE, elem |-> e, next |-> None]]
        linked == IF q.tail # null
                  THEN fifth_write_tail(q, hp, a, outcome)
                  ELSE IF Box_loops(hp, q.head, {}) THEN [q EXCEPT !.crashed = TRUE]
                  ELSE [q EXCEPT !.head = a, !.heap = Box_drop(hp, q.head)]
    IN  IF linked.crashed THEN linked
        ELSE [linked EXCEPT !.tail = a, !.ret = NoElem]

fifth_pop_keep_tail(q, new_head) == q.tail

\* if self.head.is_none() { self.tail = ptr::null_mut(); }
fifth_pop_tail(q, new_head) == IF new_head = None THEN null ELSE q.tail

\* fifth::List::pop
fifth_pop(q) ==
    IF q.head = None THEN [q EXCEPT !.ret = NoElem]
    ELSE LET old_head == q.heap[q.head]
         IN  [q EXCEPT !.head = old_head.next,
                       !.tail = fifth_pop_tail(q, old_head.next),
                       !.heap = [q.heap EXCEPT ![q.head] = FreeBox],
                       !.ret = SomeElem(old_head.elem)]

\* fifth::List::peek
fifth_peek(q) ==
    [q EXCEPT !.ret = IF q.head = None THEN NoElem
                      ELSE SomeElem(q.heap[q.head].elem)]

\* fifth::List::peek_mut, and x written through the reference it returns:
\* list.peek_mut().map(|v| *v = x); ret is the element as first seen.
fifth_peek_mut(q, x) ==
    IF q.head = None THEN [q EXCEPT !.ret = NoElem]
    ELSE [q EXCEPT !.ret = SomeElem(q.heap[q.head].elem),
                   !.heap[q.head].elem = x]

\* fifth::List::iter_mut and IterMut::next, and x written to the element i
\* calls of next after the first: list.iter_mut().nth(i).map(|v| *v = x);
\* ret is the element as first seen, None past the end.
fifth_iter_mut(q, i, x) ==
    LET b == BoxAt(q.heap, q.head, i)
    IN  IF b = None THEN [q EXCEPT !.ret = NoElem]
        ELSE [q EXCEPT !.ret = SomeElem(q.heap[b].elem), !.heap[b].elem = x]

\* The list goes out of scope (List has no Drop of its own): the drop glue
\* drops head, and with it every box of the chain; tail is a raw pointer and
\* owns nothing.
fifth_drop(q) ==
    IF Box_loops(q.heap, q.head, {}) THEN [q EXCEPT !.crashed = TRUE]
    ELSE [q EXCEPT !.head = None, !.tail = null, !.ret = NoElem,
                   !.heap = Box_drop(q.heap, q.head), !.dropped = TRUE]

\* What popping until None would return.
QElements == BoxChain(queue.heap, queue.head, MaxNodes)

QInit ==
    /\ queue = fifth_new
    /\ qhist = [abs |-> <<>>, absRet |-> NoElem, op |-> "new", emptied |-> FALSE]

\* ---- third.rs: the persistent list ---------------------------------------
Slots == 1..MaxLists
RcIds == 1..MaxShared
\* A variable of the caller that holds no list (never bound, or dropped).
NoList == -1

\* Rc<Node<T>> cells: the count of handles, the element, the next link.
FreeRc == [strong |-> 0, elem |-> 0, next |-> None]

\* A link is copied without counting it.
third_Link_move(hp, l) == hp

\* Option<Rc<Node<T>>>::clone(): one more handle to the node, if any.
third_Link_clone(hp, l) ==
    IF l = None THEN hp ELSE [hp EXCEPT ![l].strong = @ + 1]

\* Dropping an Option<Rc<Node<T>>>: the last handle releases the node, and
\* with it the node's own next link.
RECURSIVE third_Link_drop(_, _)
third_Link_drop(hp, l) ==
    IF l = None THEN hp
    ELSE IF hp[l].strong > 1 THEN [hp EXCEPT ![l].strong = @ - 1]
    ELSE third_Link_drop([hp EXCEPT ![l] = FreeRc], hp[l].next)

\* third::List::new(), bound to the variable j.
third_new(p, j) == [p EXCEPT !.lists[j] = None]

\* third::List::append on the list in i; the new list is bound to j and its
\* node is allocated at a.
third_append(p, i, j, a, x) ==
    LET hp == third_Link_clone(p.heap, p.lists[i])
    IN  [p EXCEPT !.lists[j] = a,
                  !.heap = [hp EXCEPT ![a] = [strong |-> 1, elem |-> x,
                                              next |-> p.lists[i]]]]

\* third::List::tail on the list in i; the new list is bound to j.
third_tail(p, i, j) ==
    LET l == IF p.lists[i] = None THEN None ELSE p.heap[p.lists[i]].next
    IN  [p EXCEPT !.lists[j] = l, !.heap = third_Link_clone(p.heap, l)]

\* third::List::head on the list in i (reads only).
third_head(p, i) ==
    IF p.lists[i] = None THEN NoElem ELSE SomeElem(p.heap[p.lists[i]].elem)

\* The list in i goes out of scope.
third_drop(p, i) ==
    [p EXCEPT !.lists[i] = NoList, !.heap = third_Link_drop(p.heap, p.lists[i])]

\* What iter() yields from the link l, at most fuel elements.
RECURSIVE RcChain(_, _, _)
RcChain(hp, l, fuel) ==
    IF l = None \/ l = NoList \/ fuel = 0 THEN <<>>
    ELSE IF hp[l].strong = 0 THEN <<0>>
    ELSE <<hp[l].elem>> \o RcChain(hp, hp[l].next, fuel - 1)

\* The elements of the list the variable i holds in p.
PElems(p, i) == RcChain(p.heap, p.lists[i], MaxShared + 1)

PInit ==
    /\ plist = [lists |-> [i \in Slots |-> IF i = 1 THEN None ELSE NoList],
                heap |-> [a \in RcIds |-> FreeRc]]
    /\ phist = [op |-> "new", src |-> 1, dst |-> 1, x |-> 0]

\* ---- first.rs and second.rs: the stacks ---------------------------------
\* Before List::new() there is no list; which names the module of the List.
NoStack ==
    [which |-> "none", head |-> None, heap |-> [a \in NodeIds |-> FreeBox],
     ret |-> NoElem]

\* first::List::new(): head is Link::Empty.
first_new == [NoStack EXCEPT !.which = "first"]
\* second::List::new(): head is None.
second_new == [NoStack EXCEPT !.which = "second"]

\* mem::replace(&mut self.head, Link::Empty): the list with the head emptied;
\* the value replaced is the old s.head.
first_replace_head(s) == [s EXCEPT !.head = None]

\* A push that forgets the rest of the list.
first_push_lose(s, a, e) ==
    [s EXCEPT !.head = a, !.ret = NoElem,
              !.heap[a] = [live |-> TRUE, elem |-> e, next |-> None]]

\* first::List::push; a is the address Box::new returns.
first_push(s, a, e) ==
    LET next == s.head
        s1 == first_replace_head(s)
    IN  [s1 EXCEPT !.head = a, !.ret = NoElem,
                   !.heap[a] = [live |-> TRUE, elem |-> e, next |-> next]]

\* first::List::pop: pop_node() takes the head, the match puts back the rest.
first_pop(s) ==
    LET node == s.head
        s1 == first_replace_head(s)
    IN  IF node = None THEN [s1 EXCEPT !.ret = NoElem]
        ELSE [s1 EXCEPT !.head = s.heap[node].next,
                        !.heap[node] = FreeBox,
                        !.ret = SomeElem(s.heap[node].elem)]

\* self.head.take(): the list with head None; the value taken is the old s.head.
second_take_head(s) == [s EXCEPT !.head = None]

\* second::List::push
second_push(s, a, e) ==
    LET next == s.head
        s1 == second_take_head(s)
    IN  [s1 EXCEPT !.head = a, !.ret = NoElem,
                   !.heap[a] = [live |-> TRUE, elem |-> e, next |-> next]]

\* second::List::pop
second_pop(s) ==
    LET node == s.head
        s1 == second_take_head(s)
    IN  IF node = None THEN [s1 EXCEPT !.ret = NoElem]
        ELSE [s1 EXCEPT !.head = s.heap[node].next,
                        !.heap[node] = FreeBox,
                        !.ret = SomeElem(s.heap[node].elem)]

\* second::List::peek
second_peek(s) ==
    [s EXCEPT !.ret = IF s.head = None THEN NoElem
                      ELSE SomeElem(s.heap[s.head].elem)]

\* second::List::peek_mut, and x written through the reference it returns:
\* list.peek_mut().map(|val| *val = x); ret is the element as first seen.
second_peek_mut(s, x) ==
    IF s.head = None THEN [s EXCEPT !.ret = NoElem]
    ELSE [s EXCEPT !.ret = SomeElem(s.heap[s.head].elem),
                   !.heap[s.head].elem = x]

\* second::IterMut over the list, and x written to the element i calls of
\* next after the first: list.iter_mut().nth(i).map(|v| *v = x); ret is the
\* element as first seen, None past the end.
second_iter_mut(s, i, x) ==
    LET b == BoxAt(s.heap, s.head, i)
    IN  IF b = None THEN [s EXCEPT !.ret = NoElem]
        ELSE [s EXCEPT !.ret = SomeElem(s.heap[b].elem), !.heap[b].elem = x]

\* while let Link::More(mut boxed_node) = cur_link { cur_link = ... }: each
\* turn takes the next link out of the box and releases the box.
RECURSIVE drop_loop(_, _)
drop_loop(hp, cur_link) ==
    IF cur_link = None THEN hp
    ELSE drop_loop([hp EXCEPT ![cur_link] = FreeBox], hp[cur_link].next)

\* impl Drop for first::List: pop_node() empties the head, the loop releases
\* every node; the list is gone.
first_drop(s) ==
    [NoStack EXCEPT !.heap = drop_loop(first_replace_head(s).heap, s.head)]

\* impl Drop for second::List<T> (also run when its IntoIter is dropped).
second_drop(s) ==
    [NoStack EXCEPT !.heap = drop_loop(second_take_head(s).heap, s.head)]

\* What popping until None would return.
SElements == BoxChain(stack.heap, stack.head, MaxNodes)

SInit ==
    /\ stack = NoStack
    /\ shist = [abs |-> <<>>, absRet |-> NoElem, op |-> "none"]

SibInit == QInit /\ PInit /\ SInit

\* ---- the state machine --------------------------------------------------
Cur == [head |-> head, tail |-> tail, heap |-> heap, ret |-> ret,
        fault |-> fault, unwrapRc |-> unwrapRc]

\* The machine after an operation (the operation is evaluated once).
Set(m, name) ==
    \E r \in {m} :
        /\ head' = r.head /\ tail' = r.tail /\ heap' = r.heap /\ ret' = r.ret
        /\ fault' = r.fault /\ unwrapRc' = r.unwrapRc /\ op' = name

\* A panic unwinds and does not end the program: a caller that catches it
\* goes on with the list as the unwinding left it, and one that does not has
\* the list dropped; fault is the outcome of the last call only.
\* &mut self and self by value need the caller to hold no view (checked
\* statically, whatever the borrow flags say).
NoViews == \A a \in NodeIds : views[a] = 0
\* &self needs the caller to hold no exclusive view (checked statically).
NoExclView == \A a \in NodeIds : views[a] >= 0

\* The views after a peek of the node at link l that took n (1: a Ref, -1: a
\* RefMut): one more view if the peek returned one.
Viewed(r, l, n) ==
    IF r.fault = "none" /\ r.ret # NoElem
    THEN [views EXCEPT ![l] = IF n < 0 THEN -1 ELSE @ + 1]
    ELSE views

\* A caller that forgets views does so on lists of at most MaxLeakLen nodes.
LeakLen == leaked > 0 => Cardinality(Live(heap)) < MaxLeakLen

Init ==
    /\ head = List_new.head /\ tail = List_new.tail /\ heap = List_new.heap
    /\ ret = NoElem /\ fault = "none" /\ unwrapRc = 0 /\ op = "new"
    /\ phase = "list"
    /\ abs = <<>> /\ absRet = NoElem /\ emptied = FALSE
    /\ seq0 = <<>> /\ nFront = 0 /\ nBack = 0 /\ calls = 0
    /\ pushEnd = "none" /\ popEnd = "none" /\ pushed = <<>> /\ popped = <<>>
    /\ views = [a \in NodeIds |-> 0] /\ leaked = 0
    /\ SibInit

\* The abstract sequence the list is compared with (history, no part of the
\* program): its pop at the front / at the back.
\* The history follows callers that keep to the borrow scoping rule: once a
\* view has been forgotten it is reset and no longer kept, and a call that
\* panics returns nothing and leaves it alone.
Track(a, r, e) ==
    IF leaked > 0 THEN abs' = <<>> /\ absRet' = NoElem /\ emptied' = FALSE
    ELSE IF fault' # "none" THEN abs' = abs /\ absRet' = NoElem /\ emptied' = emptied
    ELSE abs' = a /\ absRet' = r /\ emptied' = e
AbsPopFront ==
    Track(IF abs = <<>> THEN abs ELSE Tail(abs),
          IF abs = <<>> THEN NoElem ELSE <<Head(abs)>>,
          emptied \/ Len(abs) = 1)
AbsPopBack ==
    Track(IF abs = <<>> THEN abs ELSE SubSeq(abs, 1, Len(abs) - 1),
          IF abs = <<>> THEN NoElem ELSE <<abs[Len(abs)]>>,
          emptied \/ Len(abs) = 1)

PushFront ==
    /\ phase = "list" /\ NoViews /\ LeakLen
    /\ \E a \in NodeIds \ Live(heap), e \in Elems :
          /\ Set(push_front(Cur, a, e), "push_front")
          /\ Track(<<e>> \o abs, NoElem, emptied)
    /\ UNCHANGED phase /\ UNCHANGED iterVars /\ UNCHANGED rtVars /\ UNCHANGED sibVars /\ UNCHANGED viewVars

PushBack ==
    /\ phase = "list" /\ NoViews /\ LeakLen
    /\ \E a \in NodeIds \ Live(heap), e \in Elems :
          /\ Set(push_back(Cur, a, e), "push_back")
          /\ Track(Append(abs, e), NoElem, emptied)
    /\ UNCHANGED phase /\ UNCHANGED iterVars /\ UNCHANGED rtVars /\ UNCHANGED sibVars /\ UNCHANGED viewVars

PopFront ==
    /\ phase = "list" /\ NoViews
    /\ Set(pop_front(Cur), "pop_front")
    /\ AbsPopFront
    /\ UNCHANGED phase /\ UNCHANGED iterVars /\ UNCHANGED rtVars /\ UNCHANGED sibVars /\ UNCHANGED viewVars

PopBack ==
    /\ phase = "list" /\ NoViews
    /\ Set(pop_back(Cur), "pop_back")
    /\ AbsPopBack
    /\ UNCHANGED phase /\ UNCHANGED iterVars /\ UNCHANGED rtVars /\ UNCHANGED sibVars /\ UNCHANGED viewVars

AbsPeekFront == Track(abs, IF abs = <<>> THEN NoElem ELSE <<Head(abs)>>, emptied)
AbsPeekBack == Track(abs, IF abs = <<>> THEN NoElem ELSE <<abs[Len(abs)]>>, emptied)

PeekFront ==
    /\ phase = "list" /\ NoExclView
    /\ head # None => heap[head].borrow < MaxViews
    /\ Set(peek_front(Cur), "peek_front")
    /\ views' = Viewed(peek_front(Cur), head, 1)
    /\ AbsPeekFront
    /\ UNCHANGED phase /\ UNCHANGED iterVars /\ UNCHANGED rtVars /\ UNCHANGED sibVars /\ UNCHANGED leaked

PeekBack ==
    /\ phase = "list" /\ NoExclView
    /\ tail # None => heap[tail].borrow < MaxViews
    /\ Set(peek_back(Cur), "peek_back")
    /\ views' = Viewed(peek_back(Cur), tail, 1)
    /\ AbsPeekBack
    /\ UNCHANGED phase /\ UNCHANGED iterVars /\ UNCHANGED rtVars /\ UNCHANGED sibVars /\ UNCHANGED leaked

PeekFrontMut ==
    /\ phase = "list" /\ NoViews
    /\ Set(peek_front_mut(Cur), "peek_front_mut")
    /\ views' = Viewed(peek_front_mut(Cur), head, -1)
    /\ AbsPeekFront
    /\ UNCHANGED phase /\ UNCHANGED iterVars /\ UNCHANGED rtVars /\ UNCHANGED sibVars /\ UNCHANGED leaked

PeekBackMut ==
    /\ phase = "list" /\ NoViews
    /\ Set(peek_back_mut(Cur), "peek_back_mut")
    /\ views' = Viewed(peek_back_mut(Cur), tail, -1)
    /\ AbsPeekBack
    /\ UNCHANGED phase /\ UNCHANGED iterVars /\ UNCHANGED rtVars /\ UNCHANGED sibVars /\ UNCHANGED leaked

ViewDrop ==
    /\ phase = "list"
    /\ \E a \in NodeIds :
          /\ views[a] # 0
          /\ Set(view_drop(Cur, a), "view_drop")
          /\ views' = [views EXCEPT ![a] = IF @ < 0 THEN 0 ELSE @ - 1]
    /\ Track(abs, NoElem, emptied)
    /\ UNCHANGED phase /\ UNCHANGED iterVars /\ UNCHANGED rtVars /\ UNCHANGED sibVars /\ UNCHANGED leaked

\* std::mem::forget(view): the caller gives the view up without releasing it;
\* the borrow flag of the node stays as the view set it.
ViewForget ==
    /\ phase = "list" /\ leaked < MaxForgets
    /\ Cardinality(Live(heap)) <= MaxLeakLen
    /\ \E a \in NodeIds :
          /\ views[a] # 0
          /\ Set(view_forget(Cur, a), "view_forget")
          /\ views' = [views EXCEPT ![a] = IF @ < 0 THEN 0 ELSE @ - 1]
    /\ leaked' = leaked + 1
    /\ abs' = <<>> /\ absRet' = NoElem /\ emptied' = FALSE
    /\ UNCHANGED phase /\ UNCHANGED iterVars /\ UNCHANGED rtVars /\ UNCHANGED sibVars

ViewWrite ==
    /\ phase = "list"
    /\ \E a \in NodeIds, x \in Elems :
          /\ views[a] < 0
          /\ Set(view_write(Cur, a, x), "view_write")
          /\ Track([abs EXCEPT ![IF a = head THEN 1 ELSE Len(abs)] = x], NoElem, emptied)
    /\ UNCHANGED phase /\ UNCHANGED iterVars /\ UNCHANGED rtVars /\ UNCHANGED sibVars /\ UNCHANGED viewVars

\* List::into_iter(self): the list moves into the iterator.
IntoIter ==
    /\ phase = "list" /\ NoViews
    /\ Set(Enter(Cur), "into_iter")
    /\ phase' = "iter"
    /\ seq0' = Elements /\ nFront' = 0 /\ nBack' = 0 /\ calls' = 0
    /\ Track(abs, NoElem, emptied) /\ UNCHANGED rtVars /\ UNCHANGED sibVars /\ UNCHANGED viewVars

\* IntoIter::next()
IterNext ==
    /\ phase = "iter"
    /\ calls < Len(seq0) + MaxExtraCalls
    /\ Set(IntoIter_next(Cur), "next")
    /\ AbsPopFront
    /\ calls' = calls + 1
    /\ nFront' = IF ret' # NoElem THEN nFront + 1 ELSE nFront
    /\ UNCHANGED <<phase, seq0, nBack>> /\ UNCHANGED rtVars /\ UNCHANGED sibVars /\ UNCHANGED viewVars

\* IntoIter::next_back()
IterNextBack ==
    /\ phase = "iter"
    /\ calls < Len(seq0) + MaxExtraCalls
    /\ Set(IntoIter_next_back(Cur), "next_back")
    /\ AbsPopBack
    /\ calls' = calls + 1
    /\ nBack' = IF ret' # NoElem THEN nBack + 1 ELSE nBack
    /\ UNCHANGED <<phase, seq0, nFront>> /\ UNCHANGED rtVars /\ UNCHANGED sibVars /\ UNCHANGED viewVars

\* The list (or the iterator that wraps it) goes out of scope: Drop::drop
\* starts.  nFront counts the pops that returned an element.
DropList ==
    /\ phase \in {"list", "iter"} /\ NoViews
    /\ Set(Enter(Cur), "drop")
    /\ phase' = "dropping"
    /\ seq0' = Elements /\ nFront' = 0 /\ nBack' = 0 /\ calls' = 0
    /\ Track(abs, NoElem, emptied) /\ UNCHANGED rtVars /\ UNCHANGED sibVars /\ UNCHANGED viewVars

\* After the loop of Drop::drop the fields head and tail are dropped.
drop_fields(m) ==
    [m EXCEPT !.head = None, !.tail = None,
              !.heap = Link_drop(Link_drop(m.heap, m.head), m.tail)]

\* Mutant of drop_step: `if` where `while` was meant, one pop and the end.
drop_step_once(m) ==
    LET r == pop_front(m)
    IN IF r.fault # "none" THEN [m |-> drop_fields(r), done |-> TRUE]
       ELSE [m |-> drop_fields(r), done |-> TRUE]

\* One turn of `while self.pop_front().is_some() {}`: the machine after it and
\* whether the loop has ended.  A panic of pop_front ends Drop::drop, and the
\* unwinding still drops the fields.
drop_step(m) ==
    LET r == pop_front(m)
    IN IF r.fault # "none" THEN [m |-> drop_fields(r), done |-> TRUE]
       ELSE IF r.ret = NoElem THEN [m |-> drop_fields(r), done |-> TRUE]
       ELSE [m |-> r, done |-> FALSE]

DropStep ==
    /\ phase = "dropping"
    /\ \E d \in {drop_step(Cur)} :
          /\ Set(d.m, "drop_pop")
          /\ phase' = IF d.done THEN "dropped" ELSE "dropping"
    /\ AbsPopFront
    /\ calls' = calls + 1
    /\ nFront' = IF ret' # NoElem THEN nFront + 1 ELSE nFront
    /\ UNCHANGED <<seq0, nBack>> /\ UNCHANGED rtVars /\ UNCHANGED sibVars /\ UNCHANGED viewVars

Next ==
    \/ PushFront \/ PushBack \/ PopFront \/ PopBack
    \/ PeekFront \/ PeekBack \/ PeekFrontMut \/ PeekBackMut
    \/ ViewDrop \/ ViewWrite
    \/ IntoIter \/ IterNext \/ IterNextBack
    \/ DropList \/ DropStep

\* Callers that release every view they take.
Spec == Init /\ [][Next]_vars

\* Callers that may also forget views, and that catch the panics of the
\* calls they make.
NextAll ==
    \/ PushFront \/ PushBack \/ PopFront \/ PopBack
    \/ PeekFront \/ PeekBack \/ PeekFrontMut \/ PeekBackMut
    \/ ViewDrop \/ ViewWrite \/ ViewForget
    \/ IntoIter \/ IterNext \/ IterNextBack
    \/ DropList \/ DropStep

SpecAll == Init /\ [][NextAll]_vars

\* ---- teardown alone -----------------------------------------------------
\* Lists built by pushes and pops, then discarded.  Drop::drop is a loop the
\* program runs to its end once it has started: weak fairness of its turns.
NextDrop ==
    \/ PushFront \/ PushBack \/ PopFront \/ PopBack
    \/ DropList \/ DropStep

SpecDrop == Init /\ [][NextDrop]_vars /\ WF_vars(DropStep)

\* ---- round trips --------------------------------------------------------
\* N pushes at one end, then pops at one end until a pop returns None.
Ends == {"front", "back"}

InitRT ==
    /\ head = List_new.head /\ tail = List_new.tail /\ heap = List_new.heap
    /\ ret = NoElem /\ fault = "none" /\ unwrapRc = 0 /\ op = "new"
    /\ phase = "rt_push"
    /\ abs = <<>> /\ absRet = NoElem /\ emptied = FALSE
    /\ seq0 = <<>> /\ nFront = 0 /\ nBack = 0 /\ calls = 0
    /\ pushEnd \in Ends /\ popEnd \in Ends /\ pushed = <<>> /\ popped = <<>>
    /\ views = [a \in NodeIds |-> 0] /\ leaked = 0
    /\ SibInit

RTPush ==
    /\ phase = "rt_push"
    /\ \E a \in NodeIds \ Live(heap), e \in Elems :
          /\ Set(IF pushEnd = "front" THEN push_front(Cur, a, e)
                                      ELSE push_back(Cur, a, e), "push")
          /\ pushed' = Append(pushed, e)
    /\ UNCHANGED <<phase, pushEnd, popEnd, popped>>
    /\ UNCHANGED histVars /\ UNCHANGED iterVars /\ UNCHANGED sibVars /\ UNCHANGED viewVars

RTDrain ==
    /\ phase = "rt_push"
    /\ phase' = "rt_drain"
    /\ UNCHANGED listVars /\ UNCHANGED histVars /\ UNCHANGED iterVars
    /\ UNCHANGED rtVars /\ UNCHANGED sibVars /\ UNCHANGED viewVars

RTPop ==
    /\ phase = "rt_drain"
    /\ Set(IF popEnd = "front" THEN pop_front(Cur) ELSE pop_back(Cur), "pop")
    /\ popped' = IF ret' = NoElem THEN popped ELSE Append(popped, ret'[1])
    /\ phase' = IF fault' = "none" /\ ret' = NoElem THEN "rt_done" ELSE "rt_drain"
    /\ UNCHANGED <<pushEnd, popEnd, pushed>>
    /\ UNCHANGED histVars /\ UNCHANGED iterVars /\ UNCHANGED sibVars /\ UNCHANGED viewVars

NextRT == RTPush \/ RTDrain \/ RTPop

SpecRT == InitRT /\ [][NextRT]_vars


\* ---- the queue of fifth.rs as a state machine -----------------------------
QPush ==
    /\ ~queue.crashed /\ ~queue.dropped
    /\ \E a \in NodeIds, e \in Elems, outcome \in Outcomes :
          /\ ~queue.heap[a].live
          /\ queue' = fifth_push(queue, a, e, outcome)
          /\ qhist' = [qhist EXCEPT !.abs = Append(@, e), !.absRet = NoElem,
                                    !.op = "push"]
    /\ UNCHANGED dequeVars /\ UNCHANGED pVars /\ UNCHANGED sVars

QPop ==
    /\ ~queue.crashed /\ ~queue.dropped
    /\ queue' = fifth_pop(queue)
    /\ qhist' = [abs |-> IF qhist.abs = <<>> THEN <<>> ELSE Tail(qhist.abs),
                 absRet |-> IF qhist.abs = <<>> THEN NoElem
                            ELSE SomeElem(Head(qhist.abs)),
                 op |-> "pop",
                 emptied |-> qhist.emptied \/ Len(qhist.abs) = 1]
    /\ UNCHANGED dequeVars /\ UNCHANGED pVars /\ UNCHANGED sVars

QLive == ~queue.crashed /\ ~queue.dropped

QPeek ==
    /\ QLive
    /\ queue' = fifth_peek(queue)
    /\ qhist' = [qhist EXCEPT !.absRet = IF qhist.abs = <<>> THEN NoElem
                                         ELSE SomeElem(Head(qhist.abs)),
                              !.op = "peek"]
    /\ UNCHANGED dequeVars /\ UNCHANGED pVars /\ UNCHANGED sVars

QPeekMut ==
    /\ QLive
    /\ \E x \in Elems :
          /\ queue' = fifth_peek_mut(queue, x)
          /\ qhist' = [qhist EXCEPT
                          !.abs = IF @ = <<>> THEN @ ELSE <<x>> \o Tail(@),
                          !.absRet = IF qhist.abs = <<>> THEN NoElem
                                     ELSE SomeElem(Head(qhist.abs)),
                          !.op = "peek_mut"]
    /\ UNCHANGED dequeVars /\ UNCHANGED pVars /\ UNCHANGED sVars

\* fifth::List::iter_mut, a write to one of the elements it hands out.
QIterMut ==
    /\ QLive
    /\ \E i \in 0..MaxNodes - 1, x \in Elems :
          /\ queue' = fifth_iter_mut(queue, i, x)
          /\ qhist' = [qhist EXCEPT
                          !.abs = IF i < Len(@) THEN [@ EXCEPT ![i + 1] = x] ELSE @,
                          !.absRet = IF i < Len(qhist.abs)
                                     THEN SomeElem(qhist.abs[i + 1]) ELSE NoElem,
                          !.op = "iter_mut"]
    /\ UNCHANGED dequeVars /\ UNCHANGED pVars /\ UNCHANGED sVars

\* The list (or the IntoIter that wraps it) goes out of scope.
QDrop ==
    /\ QLive
    /\ queue' = fifth_drop(queue)
    /\ qhist' = [qhist EXCEPT !.abs = <<>>, !.absRet = NoElem, !.op = "drop"]
    /\ UNCHANGED dequeVars /\ UNCHANGED pVars /\ UNCHANGED sVars

NextQueue == QPush \/ QPop \/ QPeek \/ QPeekMut \/ QIterMut \/ QDrop

SpecQueue == Init /\ [][NextQueue]_vars


\* ---- the persistent list of third.rs as a state machine -------------------
Held(p) == {i \in Slots : p.lists[i] # NoList}
Unbound(p) == Slots \ Held(p)
\* The variable a new list is bound to.
NewSlot(p) == CHOOSE j \in Unbound(p) : \A k \in Unbound(p) : j <= k
PFreeAddr(p) == {a \in RcIds : p.heap[a].strong = 0}

PNew ==
    /\ Unbound(plist) # {}
    /\ plist' = third_new(plist, NewSlot(plist))
    /\ phist' = [op |-> "new", src |-> NewSlot(plist), dst |-> NewSlot(plist),
                 x |-> 0]
    /\ UNCHANGED dequeVars /\ UNCHANGED qVars /\ UNCHANGED sVars

PAppend ==
    /\ Unbound(plist) # {}
    /\ \E i \in Held(plist), a \in PFreeAddr(plist), x \in Elems :
          /\ plist' = third_append(plist, i, NewSlot(plist), a, x)
          /\ phist' = [op |-> "append", src |-> i, dst |-> NewSlot(plist),
                       x |-> x]
    /\ UNCHANGED dequeVars /\ UNCHANGED qVars /\ UNCHANGED sVars

PTail ==
    /\ Unbound(plist) # {}
    /\ \E i \in Held(plist) :
          /\ plist' = third_tail(plist, i, NewSlot(plist))
          /\ phist' = [op |-> "tail", src |-> i, dst |-> NewSlot(plist),
                       x |-> 0]
    /\ UNCHANGED dequeVars /\ UNCHANGED qVars /\ UNCHANGED sVars

\* l.append(x).tail(): the list append returns is a temporary, dropped at the
\* end of the statement.
PAppendTail ==
    /\ Cardinality(Unbound(plist)) >= 2
    /\ \E i \in Held(plist), a \in PFreeAddr(plist), x \in Elems :
          LET t == NewSlot(plist)
              p1 == third_append(plist, i, t, a, x)
              j == NewSlot(p1)
              p2 == third_tail(p1, t, j)
          IN  /\ plist' = third_drop(p2, t)
              /\ phist' = [op |-> "append_tail", src |-> i, dst |-> j, x |-> x]
    /\ UNCHANGED dequeVars /\ UNCHANGED qVars /\ UNCHANGED sVars

PDrop ==
    /\ \E i \in Held(plist) :
          /\ plist' = third_drop(plist, i)
          /\ phist' = [op |-> "drop", src |-> i, dst |-> i, x |-> 0]
    /\ UNCHANGED dequeVars /\ UNCHANGED qVars /\ UNCHANGED sVars

NextPersist == PNew \/ PAppend \/ PTail \/ PAppendTail \/ PDrop

SpecPersist == Init /\ [][NextPersist]_vars


\* ---- the stacks of first.rs and second.rs as a state machine --------------
\* The abstract stack, the most recent push first.
AbsPopTop ==
    [abs |-> IF shist.abs = <<>> THEN <<>> ELSE Tail(shist.abs),
     absRet |-> IF shist.abs = <<>> THEN NoElem ELSE SomeElem(Head(shist.abs)),
     op |-> "pop"]

SNew ==
    /\ stack.which = "none"
    /\ stack' \in {first_new, second_new}
    /\ shist' = [abs |-> <<>>, absRet |-> NoElem, op |-> "new"]
    /\ UNCHANGED dequeVars /\ UNCHANGED qVars /\ UNCHANGED pVars

SPush ==
    /\ stack.which # "none"
    /\ \E a \in NodeIds, e \in Elems :
          /\ ~stack.heap[a].live
          /\ stack' = IF stack.which = "first" THEN first_push(stack, a, e)
                      ELSE second_push(stack, a, e)
          /\ shist' = [abs |-> <<e>> \o shist.abs, absRet |-> NoElem,
                       op |-> "push"]
    /\ UNCHANGED dequeVars /\ UNCHANGED qVars /\ UNCHANGED pVars

SPop ==
    /\ stack.which # "none"
    /\ stack' = IF stack.which = "first" THEN first_pop(stack)
                ELSE second_pop(stack)
    /\ shist' = AbsPopTop
    /\ UNCHANGED dequeVars /\ UNCHANGED qVars /\ UNCHANGED pVars

SPeek ==
    /\ stack.which = "second"
    /\ stack' = second_peek(stack)
    /\ shist' = [shist EXCEPT !.absRet = AbsPopTop.absRet, !.op = "peek"]
    /\ UNCHANGED dequeVars /\ UNCHANGED qVars /\ UNCHANGED pVars

SPeekMut ==
    /\ stack.which = "second"
    /\ \E x \in Elems :
          /\ stack' = second_peek_mut(stack, x)
          /\ shist' = [abs |-> IF shist.abs = <<>> THEN <<>>
                               ELSE <<x>> \o Tail(shist.abs),
                       absRet |-> AbsPopTop.absRet, op |-> "peek_mut"]
    /\ UNCHANGED dequeVars /\ UNCHANGED qVars /\ UNCHANGED pVars

\* second::List::iter_mut, a write to one of the elements it hands out.
SIterMut ==
    /\ stack.which = "second"
    /\ \E i \in 0..MaxNodes - 1, x \in Elems :
          /\ stack' = second_iter_mut(stack, i, x)
          /\ shist' = [abs |-> IF i < Len(shist.abs)
                               THEN [shist.abs EXCEPT ![i + 1] = x]
                               ELSE shist.abs,
                       absRet |-> IF i < Len(shist.abs)
                                  THEN SomeElem(shist.abs[i + 1]) ELSE NoElem,
                       op |-> "iter_mut"]
    /\ UNCHANGED dequeVars /\ UNCHANGED qVars /\ UNCHANGED pVars

\* The list goes out of scope.
SDrop ==
    /\ stack.which # "none"
    /\ stack' = IF stack.which = "first" THEN first_drop(stack)
                ELSE second_drop(stack)
    /\ shist' = [abs |-> <<>>, absRet |-> NoElem, op |-> "drop"]
    /\ UNCHANGED dequeVars /\ UNCHANGED qVars /\ UNCHANGED pVars

NextStack == SNew \/ SPush \/ SPop \/ SPeek \/ SPeekMut \/ SIterMut \/ SDrop

SpecStack == Init /\ [][NextStack]_vars

\* ---- the claims ---------------------------------------------------------
PopOps == {"pop_front", "pop_back", "next", "next_back", "drop_pop"}

\* C1: the elements reached from head via next are exactly the abstract
\* sequence (push_front prepends, push_back appends, pop_front removes the
\* first, pop_back the last), and every pop returns what the abstract
\* sequence returns.
C1_RefinesSequence ==
    /\ Elements = abs
    /\ op \in PopOps => ret = absRet

\* A pop at the back has returned the last element of a three-element list
\* and left the other two in place.
C1_Witness ==
    /\ op = "pop_back" /\ ret = SomeElem(2) /\ absRet = SomeElem(2)
    /\ abs = <<2, 1>> /\ Elements = <<2, 1>> /\ phase = "list"

\* C2: N pushes at one end, then a drain at one end: the drain returns N
\* elements before the first None, in reverse push order at the end that was
\* pushed and in push order at the other end.
RTExpected == IF popEnd = pushEnd THEN Reverse(pushed) ELSE pushed

C2_RoundTrip ==
    phase \in {"rt_drain", "rt_done"} =>
        /\ fault = "none"
        /\ Len(popped) <= Len(pushed)
        /\ popped = SubSeq(RTExpected, 1, Len(popped))
        /\ phase = "rt_done" => popped = RTExpected

\* Three pushes at the front have been drained from the back, in push order.
C2_Witness ==
    /\ phase = "rt_done" /\ pushEnd = "front" /\ popEnd = "back"
    /\ pushed = <<1, 2, 2>> /\ popped = <<1, 2, 2>>

\* C3: head is None iff tail is None, and both are None iff the list holds
\* no elements.
C3_AnchorsAgree ==
    /\ head = None <=> tail = None
    /\ head = None <=> abs = <<>>
    /\ head = None <=> Live(heap) = {}

\* A pop has just emptied a list: both anchors are None.
C3_Witness ==
    /\ op = "pop_back" /\ ret # NoElem /\ abs = <<>>
    /\ head = None /\ tail = None

\* C4: with N >= 1 elements, adjacent nodes link to each other, next from
\* head reaches the tail node in exactly N-1 steps and prev from tail reaches
\* the head node in exactly N-1 steps.
C4_LinkSymmetry ==
    LET N == Len(abs)
        f == Forward
        b == Backward
    IN N >= 1 =>
        /\ Len(f) = N /\ f[1] = head /\ f[N] = tail
        /\ \A i \in 1..(N - 1) : f[i] # tail
        /\ Len(b) = N /\ b[1] = tail /\ b[N] = head
        /\ \A i \in 1..(N - 1) : b[i] # head
        /\ \A i \in 1..(N - 1) :
              /\ heap[f[i]].next = f[i + 1]
              /\ heap[f[i + 1]].prev = f[i]
        /\ b = Reverse(f)

\* Three nodes are linked after pushes at both ends that followed a pop.
C4_Witness ==
    /\ Len(abs) = 3 /\ emptied /\ op = "push_back" /\ phase = "list"
    /\ head # tail /\ heap[heap[head].next].next = tail

\* C5: in a non-empty list the head node's prev and the tail node's next are
\* None; after a pop the new end node no longer links to the removed node.
\* This holds for every caller, also one that forgets views and goes on
\* after the panics of its calls.
C5_EndsSevered ==
    /\ head # None => heap[head].prev = None
    /\ tail # None => heap[tail].next = None
    /\ (op \in PopOps /\ ret # NoElem) =>
          \A a \in NodeIds \ Live(heap) :
             /\ head # None => heap[head].prev # a
             /\ tail # None => heap[tail].next # a

\* A pop at the back has left a non-empty list behind, in a run where a view
\* was forgotten.
C5_Witness ==
    /\ op = "pop_back" /\ ret # NoElem /\ tail # None /\ head # None
    /\ leaked > 0 /\ heap[tail].next = None

\* C6: when a pop reaches Rc::try_unwrap, the removed node has exactly one
\* handle left, so no pop ends in the unwrap panic.
C6_UniqueAtUnwrap ==
    /\ fault # "UnwrapNone"
    /\ unwrapRc \in {0, 1}
    /\ (op \in PopOps /\ (absRet # NoElem \/ ret # NoElem)) => unwrapRc = 1

\* A pop at the front of a list of two or more has unwrapped its node, after
\* a view was forgotten and a call had panicked on it.
C6_Witness ==
    /\ op = "pop_front" /\ unwrapRc = 1 /\ ret # NoElem /\ head # None
    /\ leaked > 0

\* C7: a pop on an empty list returns None and changes nothing: head and
\* tail stay None and no node is created or released.
C7_EmptyPopNoOp ==
    [][(abs = <<>> /\ op' \in {"pop_front", "pop_back"}) =>
          /\ ret' = NoElem /\ fault' = "none"
          /\ head = None /\ tail = None
          /\ head' = None /\ tail' = None
          /\ heap' = heap]_vars

\* A pop has returned None on a list that earlier pops had emptied.
C7_Witness ==
    /\ op = "pop_back" /\ ret = NoElem /\ emptied /\ abs = <<>>
    /\ head = None /\ tail = None /\ Live(heap) = {}

\* C8: teardown ends after exactly as many successful pops as the list had
\* elements, and leaves no node allocated.
C8_Teardown ==
    /\ [](phase = "dropped" =>
             /\ nFront = Len(seq0) /\ calls = Len(seq0) + 1
             /\ Live(heap) = {} /\ head = None /\ tail = None)
    /\ [](phase = "dropping" => nFront <= Len(seq0))
    /\ (phase = "dropping" ~> phase = "dropped")

\* A list of two or more elements has been torn down.
C8_Witness ==
    /\ phase = "dropped" /\ Len(seq0) >= 2 /\ nFront = Len(seq0)

\* C9: of the next / next_back calls on the draining iterator, the first N
\* return an element and every later one returns None, N being the length of
\* the list at into_iter.
C9_IterCount ==
    (phase = "iter" /\ op \in {"next", "next_back"}) =>
        (ret # NoElem <=> calls <= Len(seq0))

\* Both ends were pulled, and the call after the last element returned None.
C9_Witness ==
    /\ phase = "iter" /\ op = "next_back" /\ ret = NoElem
    /\ Len(seq0) >= 2 /\ calls = Len(seq0) + 1 /\ nFront >= 1 /\ nBack >= 1

\* C10: next yields in head-to-tail order, next_back in tail-to-head order,
\* what is left is the stretch between them (nothing twice, nothing skipped),
\* and None comes only once both ends have met.
C10_IterConverges ==
    phase = "iter" =>
        /\ nFront + nBack <= Len(seq0)
        /\ Elements = SubSeq(seq0, nFront + 1, Len(seq0) - nBack)
        /\ (op = "next" /\ ret # NoElem) => ret = SomeElem(seq0[nFront])
        /\ (op = "next_back" /\ ret # NoElem) =>
               ret = SomeElem(seq0[Len(seq0) - nBack + 1])
        /\ (op \in {"next", "next_back"} /\ ret = NoElem) =>
               nFront + nBack = Len(seq0)

\* Of three elements the back one was pulled by next_back and the middle one,
\* the last left, by next.
C10_Witness ==
    /\ phase = "iter" /\ seq0 = <<2, 1, 1>> /\ nFront = 2 /\ nBack = 1
    /\ op = "next" /\ ret = SomeElem(1) /\ head = None

\* The machine once the caller has dropped every view it holds: each view
\* gives back its own borrow, and the borrow of a forgotten view stays.
Released ==
    [Cur EXCEPT !.heap = [a \in NodeIds |->
                            [heap[a] EXCEPT !.borrow = IF views[a] < 0 THEN 0
                                                       ELSE @ - views[a]]]]

\* C11: peek_front and peek_front_mut show the element the next pop_front
\* would return, peek_back and peek_back_mut the element the next pop_back
\* would return, and each returns None exactly when the list is empty.
C11_PeekShowsNextPop ==
    /\ op \in {"peek_front", "peek_front_mut"} =>
          /\ ret = pop_front(Released).ret
          /\ ret = NoElem <=> abs = <<>>
    /\ op \in {"peek_back", "peek_back_mut"} =>
          /\ ret = pop_back(Released).ret
          /\ ret = NoElem <=> abs = <<>>

\* peek_back_mut has shown the last element of a list whose ends differ.
C11_Witness ==
    /\ op = "peek_back_mut" /\ ret = SomeElem(1) /\ abs = <<2, 2, 1>>
    /\ heap[tail].borrow = -1

PeekOps == {"peek_front", "peek_front_mut", "peek_back", "peek_back_mut"}

\* The step leaves the anchors and every node's prev, next and handle count
\* as they were.
LinksSame ==
    /\ head' = head /\ tail' = tail
    /\ \A a \in NodeIds :
          /\ heap'[a].prev = heap[a].prev /\ heap'[a].next = heap[a].next
          /\ heap'[a].strong = heap[a].strong

\* C12: no peek, and no release of a peek's view, changes head, tail, any
\* node's prev, next or handle count, or any element; a write through a view
\* changes links of no node and the element of no node but the one the
\* exclusive view is of, which is the head or the tail node.
C12_PeekFrame ==
    [][/\ op' \in PeekOps \cup {"view_drop"} =>
             /\ LinksSame
             /\ \A a \in NodeIds : heap'[a].elem = heap[a].elem
       /\ op' = "view_drop" =>
             \A a \in NodeIds : heap'[a].borrow \in {heap[a].borrow, 0,
                                                    heap[a].borrow - 1}
       /\ op' = "view_write" =>
             /\ LinksSame
             /\ \A a \in NodeIds :
                   heap'[a].elem # heap[a].elem =>
                       /\ heap[a].borrow = -1 /\ a \in {head, tail}
                       /\ op \in {"peek_front_mut", "peek_back_mut", "view_write"}
                       /\ \A b \in NodeIds \ {a} : heap'[b].elem = heap[b].elem]_vars

\* The view of peek_front_mut on a three-element list has been written
\* through: the links and the handle counts are what they were.
C12_Witness ==
    /\ op = "view_write" /\ heap[head].borrow = -1 /\ head # tail
    /\ abs = <<2, 1, 1>> /\ Elements = abs
    /\ \A a \in NodeIds : heap[a].strong = 2

\* C13: a pop that removes the only element leaves head and tail None, and
\* the removed node is referred to by nothing: it is released.
C13_SoleElementCleared ==
    [][(head # None /\ head = tail /\ op' \in PopOps) =>
          /\ head' = None /\ tail' = None
          /\ ret' = SomeElem(heap[head].elem)
          /\ heap'[head].strong = 0
          /\ \A a \in NodeIds : heap'[a].prev # head /\ heap'[a].next # head]_vars

\* pop_front has removed the only element of a list.
C13_Witness ==
    /\ op = "pop_front" /\ ret # NoElem /\ abs = <<>>
    /\ head = None /\ tail = None /\ Live(heap) = {}

\* C14: the queue of fifth.rs is first-in first-out: what is still queued,
\* read from the head, is what was pushed and not yet popped, in push order;
\* a pop returns the oldest such element and None exactly when there is none;
\* this still holds for pushes made after the queue was drained, and no write
\* goes through a dangling tail pointer.
C14_QueueFifo ==
    /\ QElements = qhist.abs
    /\ qhist.op = "pop" => queue.ret = qhist.absRet
    /\ (queue.ret = NoElem /\ qhist.op = "pop") => QElements = <<>>
    /\ ~queue.ub /\ ~queue.crashed
    /\ queue.tail = null <=> queue.head = None

\* Drained to empty, then 2 and 1 pushed, then a pop that returned the 2.
C14_Witness ==
    /\ qhist.emptied /\ qhist.op = "pop" /\ queue.ret = SomeElem(2)
    /\ qhist.abs = <<1>> /\ queue.tail = queue.head /\ queue.head # None

\* C15: the persistent list of third.rs is immutable under its operations:
\* append and tail bind a new list and leave every list that existed before,
\* the one they are called on included, with the same elements; the list
\* append(x) returns starts with x and continues with the elements of the
\* source; tail returns the source without its first element, and an empty
\* list for an empty source; the tail of l.append(x) has the elements of l;
\* head returns the first element of a list.
C15_Persistent ==
    [][LET s == phist'.src
           d == phist'.dst
           before == PElems(plist, s)
       IN  /\ \A i \in Held(plist) :
                 (phist'.op = "drop" => i # s) =>
                    /\ i \in Held(plist')
                    /\ PElems(plist', i) = PElems(plist, i)
           /\ phist'.op = "append" =>
                 /\ d \notin Held(plist)
                 /\ PElems(plist', d) = <<phist'.x>> \o before
                 /\ third_head(plist', d) = SomeElem(phist'.x)
           /\ phist'.op = "tail" =>
                 /\ d \notin Held(plist)
                 /\ PElems(plist', d) =
                       IF before = <<>> THEN <<>> ELSE Tail(before)
           /\ phist'.op = "append_tail" =>
                 /\ d \notin Held(plist)
                 /\ PElems(plist', d) = before
           /\ \A i \in Held(plist') :
                 third_head(plist', i) =
                    IF PElems(plist', i) = <<>> THEN NoElem
                    ELSE SomeElem(Head(PElems(plist', i)))]_vars

\* The tail of a two-element list was taken while a third list shares its
\* last node: three lists, two nodes, the last node held three times.
C15_Witness ==
    /\ phist.op = "tail" /\ phist.src = 2 /\ phist.dst = 3
    /\ PElems(plist, 1) = <<1>> /\ PElems(plist, 2) = <<2, 1>>
    /\ PElems(plist, 3) = <<1>>
    /\ plist.heap[plist.lists[1]].strong = 3

\* C16: the stacks of first.rs and second.rs are last-in first-out: what is
\* on the stack, read from the head, is what was pushed and not yet popped,
\* the most recent push first; a pop returns the most recent such element and
\* None exactly when there is none; in second.rs a peek returns what the next
\* pop would return and removes nothing.
C16_StackLifo ==
    /\ SElements = shist.abs
    /\ shist.op = "pop" => stack.ret = shist.absRet
    /\ shist.op = "peek" =>
          /\ stack.ret = second_pop(stack).ret
          /\ stack.ret = shist.absRet
          /\ stack.ret = NoElem <=> shist.abs = <<>>
    /\ stack.head = None <=> shist.abs = <<>>

\* In first.rs: 1, 2, then 1 were pushed, and a pop returned the last 1.
C16_Witness ==
    /\ stack.which = "first" /\ shist.op = "pop" /\ stack.ret = SomeElem(1)
    /\ shist.abs = <<2, 1>> /\ SElements = <<2, 1>>

PushOps == {"push_front", "push_back"}

\* C17: after every operation the live nodes are as many as the elements of
\* the list; a pop that returns an element releases exactly one node, the one
\* it removed (the head for a pop at the front, the tail for one at the back),
\* and a pop that returns None releases none; a push allocates one node and
\* releases none; a peek, and the use or release of its view, neither
\* allocates nor releases.
C17_OneNodePerPop ==
    [][/\ Cardinality(Live(heap')) = Len(abs')
       /\ (op' \in PopOps /\ ret' # NoElem) =>
             LET gone == IF op' \in {"pop_back", "next_back"} THEN tail ELSE head
             IN  /\ gone \in Live(heap)
                 /\ Live(heap') = Live(heap) \ {gone}
       /\ (op' \in PopOps /\ ret' = NoElem) => Live(heap') = Live(heap)
       /\ op' \in PushOps =>
             /\ Live(heap) \subseteq Live(heap')
             /\ Cardinality(Live(heap')) = Cardinality(Live(heap)) + 1
       /\ op' \in PeekOps \cup {"view_drop", "view_write"} =>
             Live(heap') = Live(heap)]_vars

\* A pop_back of a three-element list: the old tail is released, the two
\* nodes that remain are live.
C17_Witness ==
    /\ op = "pop_back" /\ ret = SomeElem(2) /\ abs = <<1, 2>>
    /\ Cardinality(Live(heap)) = 2 /\ Elements = abs
    /\ \A a \in Live(heap) : heap[a].strong = 2

\* The handles that lead forward to a: the head anchor, next links of live nodes.
FwdHolders(h, hp, a) ==
    (IF h = a THEN 1 ELSE 0) + Cardinality({b \in Live(hp) : hp[b].next = a})
\* The handles that lead backward to a: the tail anchor, prev links of live nodes.
BwdHolders(t, hp, a) ==
    (IF t = a THEN 1 ELSE 0) + Cardinality({b \in Live(hp) : hp[b].prev = a})

\* C18: after every operation each live node is held by exactly two counted
\* handles, one from the head anchor or the next link of its predecessor and
\* one from the tail anchor or the prev link of its successor; a push gives
\* the node it allocates exactly two handles and leaves the count of every
\* other node as it was.
C18_TwoHandles ==
    [][/\ \A a \in Live(heap') :
             /\ heap'[a].strong = 2
             /\ FwdHolders(head', heap', a) = 1
             /\ BwdHolders(tail', heap', a) = 1
             /\ head' # a => heap'[a].prev \in Live(heap')
             /\ tail' # a => heap'[a].next \in Live(heap')
       /\ op' \in PushOps =>
             \E n \in NodeIds :
                /\ heap[n].strong = 0 /\ heap'[n].strong = 2
                /\ \A b \in NodeIds \ {n} : heap'[b].strong = heap[b].strong]_vars

\* A push_back onto an empty list: the new node is held by both anchors.
C18_Witness ==
    /\ op = "push_back" /\ abs = <<2>> /\ head = tail /\ head # None
    /\ heap[head].strong = 2 /\ heap[head].prev = None /\ heap[head].next = None
    /\ emptied

BorrowFaults == {"BorrowMutError", "BorrowError"}

\* No borrow of any node is outstanding: every view a peek gave out has been
\* released, none has been forgotten on a node that is still allocated.
FlagsClear == \A a \in NodeIds : heap[a].borrow = 0

\* C19: a push or pop is called with no peek view outstanding, and during it
\* no node is asked for a borrow that an exclusive borrow of the same node
\* forbids: the neighbour a pop borrows while it holds the removed node
\* exclusively (the next of the head, the prev of the tail) is another node
\* than the removed one, and the node a push borrows is not the new one.  No
\* operation called with no view outstanding ends in a borrow panic, and no
\* operation at all does so for a caller that releases its views: a borrow
\* panic needs a view that was forgotten and is outstanding for good.
C19_NoBorrowOverlap ==
    [][/\ fault' \in BorrowFaults => (leaked > 0 /\ ~FlagsClear)
       /\ op' \in PushOps \cup PopOps =>
             /\ NoViews
             /\ head # None => heap[head].next # head
             /\ tail # None => heap[tail].prev # tail
             /\ (op' \in PushOps /\ fault' = "none") =>
                   \E n \in Live(heap') \ Live(heap) : n \notin {head, tail}]_vars

\* A pop_front of a two-element list went through, the old head held
\* exclusively while the new head was borrowed to clear its prev, in a run
\* where a view had been forgotten and its node has since been released.
C19_Witness ==
    /\ op = "pop_front" /\ ret # NoElem /\ fault = "none"
    /\ head = tail /\ head # None /\ heap[head].prev = None
    /\ unwrapRc = 1 /\ leaked > 0 /\ FlagsClear

\* The nodes the counted handles of node a lead to: its next link if un, its
\* prev link if up.
Handles(hp, a, un, up) ==
    ((IF un THEN {hp[a].next} ELSE {}) \cup (IF up THEN {hp[a].prev} ELSE {}))
       \ {None}

\* The nodes reached from the set S in at most n further handles.
RECURSIVE Closure(_, _, _, _, _)
Closure(hp, S, n, un, up) ==
    IF n = 0 THEN S
    ELSE Closure(hp, S \cup UNION {Handles(hp, b, un, up) : b \in S}, n - 1, un, up)

\* Node a reaches itself by following one or more handles.
OnCycle(hp, a, un, up) == a \in Closure(hp, Handles(hp, a, un, up), MaxNodes, un, up)

\* C20 as stated: between operations no live node reaches itself by following
\* counted next / prev handles.
C20_NoCycle == \A a \in Live(heap) : ~OnCycle(heap, a, TRUE, TRUE)

\* C20, amended: between operations the next handles alone form no cycle and
\* the prev handles alone form none; the cycles of counted handles are those
\* of two adjacent nodes (a.next = b and b.prev = a), so a node is on a cycle
\* exactly when it has a neighbour and the list holds a cycle exactly when it
\* has two elements or more; a released node holds no handle and is held by
\* none; once the list is torn down no node and no cycle is left.
C20_CyclesArePairs ==
    /\ \A a \in Live(heap) :
          /\ ~OnCycle(heap, a, TRUE, FALSE)
          /\ ~OnCycle(heap, a, FALSE, TRUE)
          /\ OnCycle(heap, a, TRUE, TRUE) <=>
                (heap[a].next # None \/ heap[a].prev # None)
          /\ \A b \in NodeIds : heap[a].next = b <=> (b \in Live(heap) /\ heap[b].prev = a)
    /\ (\E a \in Live(heap) : OnCycle(heap, a, TRUE, TRUE)) <=> Len(abs) >= 2
    /\ \A a \in NodeIds \ Live(heap) :
          /\ heap[a].next = None /\ heap[a].prev = None
          /\ head # a /\ tail # a
          /\ \A b \in Live(heap) : heap[b].next # a /\ heap[b].prev # a
    /\ phase = "dropped" => Live(heap) = {}

\* Three elements after a push_front: every node is on a cycle of counted
\* handles with its neighbour.
C20_Witness ==
    /\ op = "push_front" /\ abs = <<1, 2, 1>> /\ Elements = abs
    /\ \A a \in NodeIds : OnCycle(heap, a, TRUE, TRUE)
    /\ heap[heap[head].next].prev = head

\* C21: a push_front onto a non-empty list allocates one node n, sets
\* old_head.prev to n, n.next to the old head and head to n, and leaves the
\* tail anchor, n.prev (None), the old head's next and element, and every
\* other node as they were; onto an empty list it sets head and tail to the
\* one new node, whose prev and next are None.  The new node holds the
\* element pushed.
C21_PushFrontFrame ==
    [][op' = "push_front" =>
          \E n \in NodeIds :
             /\ heap[n].strong = 0 /\ head' = n
             /\ heap'[n].elem = Head(abs') /\ heap'[n].prev = None
             /\ \A b \in NodeIds \ {n, head} : heap'[b] = heap[b]
             /\ head # None =>
                   /\ heap'[head].prev = n /\ heap'[n].next = head
                   /\ tail' = tail
                   /\ heap'[head].next = heap[head].next
                   /\ heap'[head].elem = heap[head].elem
                   /\ heap'[head].strong = heap[head].strong
             /\ head = None =>
                   /\ tail' = n /\ heap'[n].next = None]_vars

\* A push_front of 2 onto the two-element list <<1, 1>>: the new head's next
\* is the old head, whose prev is the new head and whose next is the tail.
C21_Witness ==
    /\ op = "push_front" /\ abs = <<2, 1, 1>> /\ heap[head].elem = 2
    /\ heap[head].prev = None /\ heap[heap[head].next].prev = head
    /\ heap[heap[head].next].next = tail /\ heap[tail].next = None

\* The list read from the other end: head and tail swapped, and prev and next
\* swapped in every node.
Mirror(m) ==
    [m EXCEPT !.head = m.tail, !.tail = m.head,
              !.heap = [a \in NodeIds |->
                          [m.heap[a] EXCEPT !.prev = m.heap[a].next,
                                            !.next = m.heap[a].prev]]]

\* The elements of the list of m, from its head.
ElementsIn(m) == ElemsOf(m.heap, NextChain(m.heap, m.head, MaxNodes + 1))

\* C22: in every state where a push or pop can be called, the mirror of the
\* list holds the reversed elements; push_back(x) gives the mirror of what
\* push_front(x) gives on the mirror, for every element and every address the
\* allocator may return; pop_back returns the element, and leaves the mirror
\* of the list, that pop_front returns and leaves on the mirror.
C22_BackMirrorsFront ==
    NoViews =>
       /\ ElementsIn(Mirror(Cur)) = Reverse(Elements)
       /\ \A a \in NodeIds \ Live(heap), e \in Elems :
             /\ push_back(Cur, a, e) = Mirror(push_front(Mirror(Cur), a, e))
             /\ ElementsIn(push_back(Cur, a, e)) =
                   Reverse(ElementsIn(push_front(Mirror(Cur), a, e)))
       /\ pop_back(Cur) = Mirror(pop_front(Mirror(Cur)))
       /\ pop_back(Cur).ret = pop_front(Mirror(Cur)).ret
       /\ ElementsIn(pop_back(Cur)) = Reverse(ElementsIn(pop_front(Mirror(Cur))))

\* After a pop_back of <<1, 1, 2>> returned 2: two nodes are left, a further
\* pop_back would return 1 and a push_back of 2 would restore <<1, 1, 2>>.
C22_Witness ==
    /\ op = "pop_back" /\ ret = SomeElem(2) /\ abs = <<1, 1>> /\ NoViews
    /\ head # tail /\ ElementsIn(Mirror(Cur)) = <<1, 1>>
    /\ pop_back(Cur).ret = SomeElem(1)
    /\ \E a \in NodeIds \ Live(heap) :
          ElementsIn(push_back(Cur, a, 2)) = <<1, 1, 2>>

\* The nodes of a chain, as a set.
Range(s) == {s[i] : i \in 1..Len(s)}

\* C23: between operations no node occupies two positions: the chain from
\* head via next visits every live node, each exactly once, and no other
\* node; it ends at the tail node (and is empty exactly when there is no tail);
\* no node is the next of two nodes, and the head is the next of none.
C23_OnePosition ==
    /\ Range(Forward) = Live(heap)
    /\ Len(Forward) = Cardinality(Live(heap))
    /\ \A i, j \in 1..Len(Forward) : Forward[i] = Forward[j] => i = j
    /\ IF Forward = <<>> THEN tail = None ELSE Forward[Len(Forward)] = tail
    /\ \A a \in Live(heap) :
          Cardinality({b \in Live(heap) : heap[b].next = a}) =
             IF a = head THEN 0 ELSE 1

\* Three nodes in the chain, reached after a node was released and its
\* address allocated again.
C23_Witness ==
    /\ Len(Forward) = 3 /\ Cardinality(Range(Forward)) = 3
    /\ Forward[3] = tail /\ Forward[1] = head
    /\ emptied /\ op = "push_back" /\ abs = <<2, 1, 2>>

\* The boxes a walk over the next links meets, at most fuel of them.
RECURSIVE BoxNodes(_, _, _)
BoxNodes(hp, l, fuel) ==
    IF l = None \/ fuel = 0 \/ ~hp[l].live THEN <<>>
    ELSE <<l>> \o BoxNodes(hp, hp[l].next, fuel - 1)

\* The chain of the queue from its head.
QChain == BoxNodes(queue.heap, queue.head, MaxNodes + 1)

\* C24: in the queue of fifth.rs, after any pushes and pops, the tail
\* pointer is null exactly when head is None; otherwise it points at a live
\* box, the last of the chain from head, whose next is None; every live box
\* is on that chain; no push has written through a pointer to a released box.
C24_TailValid ==
    /\ queue.tail = null <=> queue.head = None
    /\ queue.tail # null =>
          /\ queue.heap[queue.tail].live
          /\ queue.heap[queue.tail].next = None
          /\ QChain # <<>> /\ QChain[Len(QChain)] = queue.tail
    /\ {a \in NodeIds : queue.heap[a].live} = {QChain[i] : i \in 1..Len(QChain)}
    /\ Len(QChain) = Len(qhist.abs)
    /\ ~queue.ub /\ ~queue.crashed

\* A push wrote through the tail pointer after the queue had been drained and
\* refilled: two boxes, the tail the second.
C24_Witness ==
    /\ qhist.emptied /\ qhist.op = "push" /\ Len(QChain) = 2
    /\ queue.tail = QChain[2] /\ queue.head # queue.tail
    /\ queue.heap[queue.head].next = queue.tail
====
